---- MODULE Spec2Model ----
(***************************************************************************)
(* Problem-details responses (RFC 9457) of krabby_details, src/lib.rs:     *)
(* the serde data model (ProblemDetails, ValidationErrors,                 *)
(* ValidationError, Source), its JSON encoding as serde_json writes it,    *)
(* and ProblemDetails::into_response with its static fallback.             *)
(*                                                                         *)
(* A string is a sequence of chunks: a chunk is a run of plain characters  *)
(* or one special character (a double quote or a backslash).  The JSON     *)
(* output is a sequence of tokens; a string token carries the escaped      *)
(* chunks, as serde_json writes them between the quotes.                   *)
(***************************************************************************)
EXTENDS Integers, Sequences, FiniteSets, TLC

VARIABLES pc, input, buf, result, resp, consts, ser

vars == <<pc, input, buf, result, resp, consts, ser>>

\* ------------------------------------------------------------------ bounds
\* Longest ValidationErrors.errors sequence drawn as an input.
MaxErrors == 2
\* Most fields the failing extension writes before its serializer errors.
MaxFailAfter == 1
\* Concurrent invocations of into_response in SpecConc.
NumTasks == 2

Tasks == 1..NumTasks

\* ------------------------------------------------------------------ strings
QUOTE == "\""
BACKSLASH == "\\"

S(x) == <<x>>

\* ------------------------------------------------------------------ tokens
Tok(k) == [k |-> k, s |-> <<>>, n |-> 0]
LBrace == Tok("{")
RBrace == Tok("}")
LBrack == Tok("[")
RBrack == Tok("]")
Colon == Tok(":")
Comma == Tok(",")
Null == Tok("null")
Ws == Tok("ws")

\* serde_json's string escaping: a quote or a backslash gets a backslash
\* before it, every other run of characters is written as it is.
EscapeChunk(c) == IF c = QUOTE \/ c = BACKSLASH THEN BACKSLASH \o c ELSE c

Escape(str) == [i \in 1..Len(str) |-> EscapeChunk(str[i])]

StrTok(str) == [k |-> "s", s |-> Escape(str), n |-> 0]

NumTok(n) == [k |-> "n", s |-> <<>>, n |-> n]

\* -------------------------------------------------- serde_json writer
\* One serialize_entry / serialize_field call: a key and the tokens of its value.
Field(key, val) == [key |-> key, val |-> val]

\* serde_json's map serializer: a comma before every entry but the first
\* (the serializer's own State::First / State::Rest), then the key, a colon
\* and the value.
WriteField(b, first, f) ==
    b \o (IF first THEN <<>> ELSE <<Comma>>)
      \o <<StrTok(f.key), Colon>> \o f.val

RECURSIVE WriteFields(_, _, _)
WriteFields(b, first, fields) ==
    IF fields = <<>> THEN b
    ELSE WriteFields(WriteField(b, first, Head(fields)), FALSE, Tail(fields))

\* A struct or map on its own: begin_object, the entries, end_object.
ObjectToks(fields) == WriteFields(<<LBrace>>, TRUE, fields) \o <<RBrace>>

RECURSIVE WriteElements(_, _, _)
WriteElements(b, first, items) ==
    IF items = <<>> THEN b
    ELSE WriteElements(b \o (IF first THEN <<>> ELSE <<Comma>>) \o Head(items),
                       FALSE, Tail(items))

\* A Vec: begin_array, the elements in order, end_array.
ArrayToks(items) == WriteElements(<<LBrack>>, TRUE, items) \o <<RBrack>>

\* ------------------------------------------------------------ data model
None == [some |-> FALSE, v |-> <<>>]
Some(x) == [some |-> TRUE, v |-> x]

Body(pointer) == [variant |-> "Body", pointer |-> pointer, name |-> <<>>]
Header(name) == [variant |-> "Header", pointer |-> None, name |-> name]

ValidationError(detail, source) == [detail |-> detail, source |-> source]

ValidationErrors(errors) == [kind |-> "ValidationErrors", errors |-> errors, fields |-> <<>>]

\* An Extension of the caller's own: a struct of string fields.
CustomExtension(fields) == [kind |-> "Custom", errors |-> <<>>, fields |-> fields]

\* An Extension whose Serialize impl writes some fields and then errors.
FailingExtension(fields) == [kind |-> "Failing", errors |-> <<>>, fields |-> fields]

ProblemDetails(type_, status, title, detail, extensions) ==
    [type_ |-> type_, status |-> status, title |-> title, detail |-> detail,
     extensions |-> extensions]

\* --------------------------------------------------------- derived Serialize
\* The variant's name as declared, as serde writes it without rename_all.
VariantNameAsDeclared(variant) == S(variant)

\* #[serde(rename_all = "snake_case")] on Source.
VariantName(variant) == IF variant = "Body" THEN S("body") ELSE S("header")

\* Option<String> as a field value: serialize_some writes the string,
\* serialize_none writes null.
OptionToks(o) == IF o.some THEN <<StrTok(o.v)>> ELSE <<Null>>

\* #[serde(tag = "source")]: the tag and the variant's fields share one struct.
SourceFields(s) ==
    IF s.variant = "Body"
    THEN <<Field(S("source"), <<StrTok(VariantName(s.variant))>>),
           Field(S("pointer"), OptionToks(s.pointer))>>
    ELSE <<Field(S("source"), <<StrTok(VariantName(s.variant))>>),
           Field(S("name"), <<StrTok(s.name)>>)>>

\* ValidationError: detail, then #[serde(flatten)] source.
ValidationErrorFields(e) ==
    <<Field(S("detail"), <<StrTok(e.detail)>>)>> \o SourceFields(e.source)

\* The elements written from the last error to the first.
ErrorsInReverse(errors) ==
    [i \in 1..Len(errors) |-> ObjectToks(ValidationErrorFields(errors[Len(errors) + 1 - i]))]

\* Vec<ValidationError>: one element per error, in the Vec's order.
ErrorsElements(errors) ==
    [i \in 1..Len(errors) |-> ObjectToks(ValidationErrorFields(errors[i]))]

ValidationErrorsFields(v) ==
    <<Field(S("errors"), ArrayToks(ErrorsElements(v.errors)))>>

\* The fields an Extension value writes and whether its serializer succeeds.
SerializeExtension(x) ==
    CASE x.kind = "ValidationErrors" ->
           [fields |-> ValidationErrorsFields(x), ok |-> TRUE]
      [] x.kind = "Custom" ->
           [fields |-> [i \in 1..Len(x.fields) |->
                          Field(x.fields[i].key, <<StrTok(x.fields[i].val)>>)],
            ok |-> TRUE]
      [] x.kind = "Failing" ->
           [fields |-> [i \in 1..Len(x.fields) |->
                          Field(x.fields[i].key, <<StrTok(x.fields[i].val)>>)],
            ok |-> FALSE]

\* The member as serde writes it without flatten: one extensions entry
\* holding the Extension's object.
Nested(fields) == <<Field(S("extensions"), ObjectToks(fields))>>

\* #[serde(flatten)] on extensions: the Extension's fields are entries of the
\* envelope's own map.
Flatten(fields) == fields

\* The member without skip_serializing_if and flatten: None is written as
\* "extensions": null.
ExtensionMemberAlways(extensions) ==
    IF ~extensions.some
    THEN [fields |-> <<Field(S("extensions"), <<Null>>)>>, ok |-> TRUE]
    ELSE LET r == SerializeExtension(extensions.v)
         IN [fields |-> Flatten(r.fields), ok |-> r.ok]

\* #[serde(skip_serializing_if = "Option::is_none")] on extensions.
ExtensionMember(extensions) ==
    IF ~extensions.some
    THEN [fields |-> <<>>, ok |-> TRUE]
    ELSE LET r == SerializeExtension(extensions.v)
         IN [fields |-> Flatten(r.fields), ok |-> r.ok]

\* type (renamed from type_), status, title, detail, in declaration order.
EnvelopeFields(p) ==
    <<Field(S("type"), <<StrTok(p.type_)>>),
      Field(S("status"), <<NumTok(p.status)>>),
      Field(S("title"), <<StrTok(p.title)>>),
      Field(S("detail"), <<StrTok(p.detail)>>)>>

\* ------------------------------------------------------------- responses
CONTENT_TYPE == "content-type"

\* Bytes and &'static [u8] as a response: status 200, the body, and
\* content-type application/octet-stream.
BodyIntoResponse(body) ==
    [status |-> 200,
     headers |-> (CONTENT_TYPE :> "application/octet-stream"),
     body |-> body]

\* A [(HeaderName, HeaderValue); 1] part: each pair is inserted, replacing a
\* value the response already has under that name.
WithHeaders(r, pairs) ==
    [r EXCEPT !.headers =
        [h \in DOMAIN r.headers \cup {pairs[i][1] : i \in 1..Len(pairs)} |->
            IF \E i \in 1..Len(pairs) : pairs[i][1] = h
            THEN (CHOOSE v \in {pairs[i][2] : i \in 1..Len(pairs)} :
                    \E i \in 1..Len(pairs) : pairs[i][1] = h /\ pairs[i][2] = v)
            ELSE r.headers[h]]]

\* A StatusCode part sets the response's status.
WithStatus(r, status) == [r EXCEPT !.status = status]

APPLICATION_PROBLEM_JSON == "application/problem+json"

\* The literal of lines 76-81: there is white space after the brace, after
\* each colon and at each line break, a comma after the type and the title
\* members, and none between the detail member and the status member.
INTERNAL_SERVER_ERROR_PROBLEM ==
    <<LBrace, Ws,
      StrTok(S("type")), Colon, Ws, StrTok(S("internal_server_error")), Comma, Ws,
      StrTok(S("title")), Colon, Ws, StrTok(S("Internal Server Error")), Comma, Ws,
      StrTok(S("detail")), Colon, Ws,
      StrTok(S("Something went wrong when processing your request. Please try again later.")),
      Ws,
      StrTok(S("status")), Colon, Ws, NumTok(500), Ws,
      RBrace>>

INTERNAL_SERVER_ERROR ==
    [status |-> 500,
     headers |-> <<<<CONTENT_TYPE, APPLICATION_PROBLEM_JSON>>>>,
     body |-> INTERNAL_SERVER_ERROR_PROBLEM]

\* The three pub const items, as every invocation sees them.
Constants ==
    [APPLICATION_PROBLEM_JSON |-> APPLICATION_PROBLEM_JSON,
     INTERNAL_SERVER_ERROR |-> INTERNAL_SERVER_ERROR,
     INTERNAL_SERVER_ERROR_PROBLEM |-> INTERNAL_SERVER_ERROR_PROBLEM]

\* (StatusCode, [(HeaderName, HeaderValue); 1], &[u8]) as a response.
FallbackResponse(c) ==
    WithStatus(WithHeaders(BodyIntoResponse(c.INTERNAL_SERVER_ERROR.body),
                           c.INTERNAL_SERVER_ERROR.headers),
               c.INTERNAL_SERVER_ERROR.status)

\* The Ok arm returning the bytes alone, without the header part.
OkResponseNoHeader(c, bytes) == BodyIntoResponse(bytes)

\* ([(CONTENT_TYPE, APPLICATION_PROBLEM_JSON)], Bytes) as a response.
OkResponse(c, bytes) ==
    WithHeaders(BodyIntoResponse(bytes),
                <<<<CONTENT_TYPE, c.APPLICATION_PROBLEM_JSON>>>>)

\* The match with an Err arm that answers 500 with the buffer's bytes.
ErrArmKeepsBuffer(c, r, bytes) ==
    IF r = "Ok" THEN OkResponse(c, bytes)
    ELSE WithStatus(OkResponse(c, bytes), 500)

\* The match on serde_json::to_writer's result.
MatchResult(c, r, bytes) ==
    IF r = "Ok" THEN OkResponse(c, bytes) ELSE FallbackResponse(c)

\* ---------------------------------------------------------------- inputs
SeqsUpTo(set, n) == UNION {[1..k -> set] : k \in 0..n}

ErrorDetails == {S("must be positive"), <<"expected ", QUOTE, "int", QUOTE>>}
Pointers == {S("/age"), <<"/a", BACKSLASH, "b">>}
HeaderNames == {S("Authorization"), S("X-Request-Id")}

Sources ==
    {Body(None)} \cup {Body(Some(p)) : p \in Pointers}
                 \cup {Header(n) : n \in HeaderNames}

ValidationErrorValues ==
    {ValidationError(d, s) : d \in ErrorDetails, s \in Sources}

ValidationErrorsValues ==
    {ValidationErrors(es) : es \in SeqsUpTo(ValidationErrorValues, MaxErrors)}

Envelopes ==
    {ProblemDetails(S("validation_error"), 400, S("Bad Request"), S("invalid input"), None),
     ProblemDetails(S("not_found"), 404, S("Not Found"),
                    <<"no route ", QUOTE, "/x", QUOTE>>, None),
     ProblemDetails(S("about:blank"), 200, S("OK"), S("nothing is wrong"), None)}

\* The caller's own extension structs: one whose field is its own, one whose
\* field has the name of an envelope member.
CustomFieldValues ==
    {<<[key |-> S("trace_id"), val |-> S("abc")]>>,
     <<[key |-> S("status"), val |-> S("oops")]>>}

\* The fields the failing extension writes, in order, before it errors.
DoubleFields ==
    <<[key |-> S("trace_id"), val |-> S("abc")],
      [key |-> S("span_id"), val |-> S("def")],
      [key |-> S("node"), val |-> S("n1")],
      [key |-> S("zone"), val |-> S("z1")]>>

Extensions ==
    {None}
      \cup {Some(v) : v \in ValidationErrorsValues}
      \cup {Some(CustomExtension(f)) : f \in CustomFieldValues}
      \cup {Some(FailingExtension(SubSeq(DoubleFields, 1, k))) :
              k \in {j \in 0..MaxFailAfter : j <= Len(DoubleFields)}}

Problems ==
    {ProblemDetails(e.type_, e.status, e.title, e.detail, x) :
        e \in Envelopes, x \in Extensions}

\* The problems the concurrent invocations draw from.
ConcProblems ==
    {p \in Problems :
        /\ p.status = 400
        /\ (p.extensions.some /\ p.extensions.v.kind = "ValidationErrors") =>
              /\ Len(p.extensions.v.errors) <= 1
              /\ \A i \in 1..Len(p.extensions.v.errors) :
                    p.extensions.v.errors[i].detail = S("must be positive")}

\* ----------------------------------------------------------------- state
NoInput == ProblemDetails(<<>>, 0, <<>>, <<>>, None)
NoResponse == [status |-> 0, headers |-> <<>>, body |-> <<>>]
NoSer == [ty |-> "none", v |-> <<>>, out |-> <<>>]

Init ==
    /\ pc = [t \in Tasks |-> "idle"]
    /\ input = [t \in Tasks |-> NoInput]
    /\ buf = [t \in Tasks |-> <<>>]
    /\ result = [t \in Tasks |-> "none"]
    /\ resp = [t \in Tasks |-> NoResponse]
    /\ consts = Constants
    /\ ser = NoSer

\* One buffer that every invocation writes to.
SharedBuffer(t) == 1

\* The buffer of invocation t: a local of its own call frame.
BufOf(t) == t

\* into_response is called on p: the buffer is allocated, empty.
Call(t, p) ==
    /\ pc[t] = "idle"
    /\ pc' = [pc EXCEPT ![t] = "fields"]
    /\ input' = [input EXCEPT ![t] = p]
    /\ buf' = [buf EXCEPT ![BufOf(t)] = <<>>]
    /\ UNCHANGED <<result, resp, consts, ser>>

\* serialize_map and the four serialize_entry calls of the envelope.
SerializeEnvelope(t) ==
    /\ pc[t] = "fields"
    /\ pc' = [pc EXCEPT ![t] = "ext"]
    /\ buf' = [buf EXCEPT ![BufOf(t)] =
                 WriteFields(@ \o <<LBrace>>, TRUE, EnvelopeFields(input[t]))]
    /\ UNCHANGED <<input, result, resp, consts, ser>>

\* The extensions member, after the envelope's four entries (never the map's
\* first): what it writes stays in the buffer; an error of the
\* Extension's serializer ends to_writer with Err.
SerializeExtensions(t) ==
    /\ pc[t] = "ext"
    /\ LET m == ExtensionMember(input[t].extensions)
       IN /\ buf' = [buf EXCEPT ![BufOf(t)] = WriteFields(@, FALSE, m.fields)]
          /\ IF m.ok
             THEN /\ pc' = [pc EXCEPT ![t] = "end"]
                  /\ UNCHANGED result
             ELSE /\ pc' = [pc EXCEPT ![t] = "match"]
                  /\ result' = [result EXCEPT ![t] = "Err"]
    /\ UNCHANGED <<input, resp, consts, ser>>

\* SerializeMap::end: the closing brace; to_writer returns Ok(()).
EndMap(t) ==
    /\ pc[t] = "end"
    /\ pc' = [pc EXCEPT ![t] = "match"]
    /\ buf' = [buf EXCEPT ![BufOf(t)] = @ \o <<RBrace>>]
    /\ result' = [result EXCEPT ![t] = "Ok"]
    /\ UNCHANGED <<input, resp, consts, ser>>

\* The match: the response is built and returned.
Respond(t) ==
    /\ pc[t] = "match"
    /\ pc' = [pc EXCEPT ![t] = "done"]
    /\ resp' = [resp EXCEPT ![t] = MatchResult(consts, result[t], buf[BufOf(t)])]
    /\ UNCHANGED <<input, buf, result, consts, ser>>

\* One invocation of into_response, step by step.
Next ==
    \/ \E p \in Problems : Call(1, p)
    \/ SerializeEnvelope(1)
    \/ SerializeExtensions(1)
    \/ EndMap(1)
    \/ Respond(1)

Spec == Init /\ [][Next]_vars

\* Invocations on different threads, interleaved step by step.
NextConc ==
    \E t \in Tasks :
        \/ \E p \in ConcProblems : Call(t, p)
        \/ SerializeEnvelope(t)
        \/ SerializeExtensions(t)
        \/ EndMap(t)
        \/ Respond(t)

SpecConc == Init /\ [][NextConc]_vars

\* serde_json on the data model's own types.
ToJsonSource(s) ==
    /\ ser.ty = "none"
    /\ ser' = [ty |-> "Source", v |-> s, out |-> ObjectToks(SourceFields(s))]
    /\ UNCHANGED <<pc, input, buf, result, resp, consts>>

ToJsonValidationError(e) ==
    /\ ser.ty = "none"
    /\ ser' = [ty |-> "ValidationError", v |-> e,
               out |-> ObjectToks(ValidationErrorFields(e))]
    /\ UNCHANGED <<pc, input, buf, result, resp, consts>>

ToJsonValidationErrors(v) ==
    /\ ser.ty = "none"
    /\ ser' = [ty |-> "ValidationErrors", v |-> v,
               out |-> ObjectToks(ValidationErrorsFields(v))]
    /\ UNCHANGED <<pc, input, buf, result, resp, consts>>

NextSer ==
    \/ \E s \in Sources : ToJsonSource(s)
    \/ \E e \in ValidationErrorValues : ToJsonValidationError(e)
    \/ \E v \in ValidationErrorsValues : ToJsonValidationErrors(v)

SpecSer == Init /\ [][NextSer]_vars

\* ------------------------------------------------------ reading JSON back
\* A JSON value: k is its kind ("str", "num", "null", "obj", "arr"), s the
\* chunks of a string, n a number, c the members of an object or the
\* elements of an array, each [key, val] (an element's key is empty).
StrV(str) == [k |-> "str", s |-> str, n |-> 0, c |-> <<>>]
NumV(n) == [k |-> "num", s |-> <<>>, n |-> n, c |-> <<>>]
NullV == [k |-> "null", s |-> <<>>, n |-> 0, c |-> <<>>]
ObjV(members) == [k |-> "obj", s |-> <<>>, n |-> 0, c |-> members]
ArrV(elements) == [k |-> "arr", s |-> <<>>, n |-> 0, c |-> elements]

Fail == [ok |-> FALSE, v |-> NullV, next |-> 0]

\* JSON white space between tokens is insignificant.
Strip(toks) == SelectSeq(toks, LAMBDA tk : tk.k # "ws")

\* Between the quotes a quote or a backslash stands only after a backslash.
ValidString(chunks) ==
    \A i \in 1..Len(chunks) : chunks[i] # QUOTE /\ chunks[i] # BACKSLASH

UnescapeChunk(c) ==
    IF c = BACKSLASH \o QUOTE THEN QUOTE
    ELSE IF c = BACKSLASH \o BACKSLASH THEN BACKSLASH
    ELSE c

Unescape(chunks) == [i \in 1..Len(chunks) |-> UnescapeChunk(chunks[i])]

RECURSIVE ParseValue(_, _), ParseMembers(_, _, _), ParseElements(_, _, _)

\* value := string | number | null | object | array, read at ts[i].
ParseValue(ts, i) ==
    IF i > Len(ts) THEN Fail
    ELSE LET tk == ts[i]
         IN CASE tk.k = "s" ->
                   IF ValidString(tk.s)
                   THEN [ok |-> TRUE, v |-> StrV(Unescape(tk.s)), next |-> i + 1]
                   ELSE Fail
              [] tk.k = "n" -> [ok |-> TRUE, v |-> NumV(tk.n), next |-> i + 1]
              [] tk.k = "null" -> [ok |-> TRUE, v |-> NullV, next |-> i + 1]
              [] tk.k = "{" ->
                   IF i + 1 <= Len(ts) /\ ts[i + 1].k = "}"
                   THEN [ok |-> TRUE, v |-> ObjV(<<>>), next |-> i + 2]
                   ELSE ParseMembers(ts, i + 1, <<>>)
              [] tk.k = "[" ->
                   IF i + 1 <= Len(ts) /\ ts[i + 1].k = "]"
                   THEN [ok |-> TRUE, v |-> ArrV(<<>>), next |-> i + 2]
                   ELSE ParseElements(ts, i + 1, <<>>)
              [] OTHER -> Fail

\* members := string ":" value ("," members)? "}"
ParseMembers(ts, i, acc) ==
    IF i + 1 > Len(ts) \/ ts[i].k # "s" \/ ~ValidString(ts[i].s) \/ ts[i + 1].k # ":"
    THEN Fail
    ELSE LET r == ParseValue(ts, i + 2)
             got == Append(acc, [key |-> Unescape(ts[i].s), val |-> r.v])
         IN IF ~r.ok \/ r.next > Len(ts) THEN Fail
            ELSE IF ts[r.next].k = "," THEN ParseMembers(ts, r.next + 1, got)
            ELSE IF ts[r.next].k = "}"
                 THEN [ok |-> TRUE, v |-> ObjV(got), next |-> r.next + 1]
            ELSE Fail

\* elements := value ("," elements)? "]"
ParseElements(ts, i, acc) ==
    LET r == ParseValue(ts, i)
        got == Append(acc, [key |-> <<>>, val |-> r.v])
    IN IF ~r.ok \/ r.next > Len(ts) THEN Fail
       ELSE IF ts[r.next].k = "," THEN ParseElements(ts, r.next + 1, got)
       ELSE IF ts[r.next].k = "]"
            THEN [ok |-> TRUE, v |-> ArrV(got), next |-> r.next + 1]
       ELSE Fail

\* A whole text: one value and nothing after it.
ParseJson(toks) ==
    LET ts == Strip(toks)
        r == ParseValue(ts, 1)
    IN IF r.ok /\ r.next = Len(ts) + 1 THEN r ELSE Fail

WellFormedObject(toks) ==
    LET r == ParseJson(toks) IN r.ok /\ r.v.k = "obj"

Keys(obj) == [i \in 1..Len(obj.c) |-> obj.c[i].key]
KeySet(obj) == {obj.c[i].key : i \in 1..Len(obj.c)}
HasKey(obj, key) == \E i \in 1..Len(obj.c) : obj.c[i].key = key
Get(obj, key) == obj.c[CHOOSE i \in 1..Len(obj.c) : obj.c[i].key = key].val

\* Two values of the same kind and content.
Same(a, b) == a.k = b.k /\ a = b

\* ---------------------------------------------------------------- claims
Done(t) == pc[t] = "done"

\* The Extension's own serializer errors.
SerializationFails(p) == p.extensions.some /\ p.extensions.v.kind = "Failing"

EnvelopeKeys == <<S("type"), S("status"), S("title"), S("detail")>>

\* The Extension value serialized on its own.
ExtensionAlone(x) == ParseJson(ObjectToks(SerializeExtension(x).fields)).v

\* The four envelope members of a parsed body carry p's fields.
CarriesEnvelope(obj, p) ==
    /\ Len(obj.c) >= 4
    /\ SubSeq(Keys(obj), 1, 4) = EnvelopeKeys
    /\ Same(obj.c[1].val, StrV(p.type_))
    /\ Same(obj.c[2].val, NumV(p.status))
    /\ Same(obj.c[3].val, StrV(p.title))
    /\ Same(obj.c[4].val, StrV(p.detail))

\* C1: into_response always comes to return a response, and when the
\* Extension's serializer fails the response has status 500, the fixed
\* INTERNAL_SERVER_ERROR_PROBLEM body, whatever the buffer holds, and
\* Content-Type application/problem+json.
C1_FallbackOnFailure ==
    \A t \in Tasks :
        /\ pc[t] \in {"fields", "ext", "end", "match"} =>
              ENABLED (SerializeEnvelope(t) \/ SerializeExtensions(t)
                         \/ EndMap(t) \/ Respond(t))
        /\ (Done(t) /\ SerializationFails(input[t])) =>
              /\ resp[t].status = 500
              /\ resp[t].body = INTERNAL_SERVER_ERROR_PROBLEM
              /\ DOMAIN resp[t].headers = {CONTENT_TYPE}
              /\ resp[t].headers[CONTENT_TYPE] = "application/problem+json"

\* C1 witness: a failed serialization that had written extension fields after
\* the envelope, answered by the fallback.
C1_Witness ==
    \E t \in Tasks :
        /\ Done(t) /\ SerializationFails(input[t])
        /\ Len(input[t].extensions.v.fields) >= 1
        /\ Len(buf[BufOf(t)]) > Len(WriteFields(<<LBrace>>, TRUE, EnvelopeFields(input[t])))
        /\ resp[t].status = 500
        /\ resp[t].body # buf[BufOf(t)]

\* C2: the body of every returned response, on the success path and on the
\* fallback path, is a well-formed JSON object.
C2_BodyWellFormed ==
    \A t \in Tasks : Done(t) => WellFormedObject(resp[t].body)

\* C3: every returned response, from either path, has Content-Type set to
\* exactly application/problem+json.
C3_ContentType ==
    \A t \in Tasks :
        Done(t) =>
            /\ CONTENT_TYPE \in DOMAIN resp[t].headers
            /\ resp[t].headers[CONTENT_TYPE] = "application/problem+json"

\* C3 witness: a response of the success path that carries the serialized
\* bytes of a problem with an extension.
C3_Witness ==
    \E t \in Tasks :
        /\ Done(t) /\ result[t] = "Ok"
        /\ input[t].extensions.some
        /\ resp[t].body = buf[BufOf(t)]
        /\ resp[t].headers[CONTENT_TYPE] = "application/problem+json"

\* C4: the numeric status member of the body equals the HTTP status of the
\* response that carries it.
C4_BodyStatusIsResponseStatus ==
    \A t \in Tasks :
        Done(t) =>
            LET ts == Strip(resp[t].body)
            IN \E i \in 1..(Len(ts) - 2) :
                  /\ ts[i] = StrTok(S("status"))
                  /\ ts[i + 1] = Colon
                  /\ ts[i + 2] = NumTok(resp[t].status)

\* The keys of an Extension's own serialization and the envelope's differ.
NoCollision(x) ==
    KeySet(ExtensionAlone(x)) \cap {EnvelopeKeys[i] : i \in 1..4} = {}

\* C5: with extensions = Some(e), e serializing successfully to an object
\* whose keys are none of type, status, title, detail, the body is one flat
\* object: the four envelope members with the input's values, then the
\* members of e's own serialization, and nothing else (no extensions key).
C5_ExtensionMerged ==
    \A t \in Tasks :
        (/\ Done(t)
         /\ input[t].extensions.some
         /\ ~SerializationFails(input[t])
         /\ NoCollision(input[t].extensions.v)) =>
            LET r == ParseJson(resp[t].body)
                e == ExtensionAlone(input[t].extensions.v)
            IN /\ r.ok /\ r.v.k = "obj"
               /\ CarriesEnvelope(r.v, input[t])
               /\ SubSeq(r.v.c, 5, Len(r.v.c)) = e.c
               /\ KeySet(r.v) = {EnvelopeKeys[i] : i \in 1..4} \cup KeySet(e)
               /\ Cardinality(KeySet(r.v)) = Len(r.v.c)

\* C5 witness: the validation_error / 400 problem with one error at body
\* pointer /age, encoded with status 400 and errors[0].pointer = "/age".
C5_Witness ==
    \E t \in Tasks :
        /\ Done(t)
        /\ input[t] = ProblemDetails(S("validation_error"), 400, S("Bad Request"),
                         S("invalid input"),
                         Some(ValidationErrors(<<ValidationError(S("must be positive"),
                                                     Body(Some(S("/age"))))>>)))
        /\ LET v == ParseJson(resp[t].body).v
           IN /\ Same(Get(v, S("status")), NumV(400))
              /\ HasKey(v, S("errors"))
              /\ Same(Get(Get(v, S("errors")).c[1].val, S("pointer")), StrV(S("/age")))

\* C6: with extensions = None the body is an object of exactly the four
\* members type, status, title, detail, and encoding takes the success path.
C6_NoExtensionFourKeys ==
    \A t \in Tasks :
        (Done(t) /\ ~input[t].extensions.some) =>
            LET r == ParseJson(resp[t].body)
            IN /\ result[t] = "Ok"
               /\ resp[t].body = buf[BufOf(t)]
               /\ r.ok /\ r.v.k = "obj"
               /\ Keys(r.v) = EnvelopeKeys
               /\ CarriesEnvelope(r.v, input[t])

\* C6 witness: a problem without extensions has been encoded.
C6_Witness ==
    \E t \in Tasks :
        /\ Done(t) /\ ~input[t].extensions.some
        /\ Len(ParseJson(resp[t].body).v.c) = 4

\* The Source that a serialized value holds: the value itself or the source
\* of a ValidationError.
SerSource == IF ser.ty = "Source" THEN ser.v ELSE ser.v.source

\* C7: Source::Body{pointer: None}, alone or inside a ValidationError,
\* serializes without a pointer key; Source::Body{pointer: Some(p)}
\* serializes with "pointer": p.
C7_NonePointerOmitted ==
    (ser.ty \in {"Source", "ValidationError"} /\ SerSource.variant = "Body") =>
        LET r == ParseJson(ser.out)
        IN /\ r.ok /\ r.v.k = "obj"
           /\ IF SerSource.pointer.some
              THEN /\ HasKey(r.v, S("pointer"))
                   /\ Same(Get(r.v, S("pointer")), StrV(SerSource.pointer.v))
              ELSE ~HasKey(r.v, S("pointer"))

\* C8: a Source serializes to one object with a source member that is "body"
\* for Body and "header" for Header, the variant's fields beside it;
\* Source::Header{name: n} is exactly {"source": "header", "name": n}; a
\* ValidationError is one object of detail, source and the variant's fields.
C8_SourceTag ==
    (ser.ty \in {"Source", "ValidationError"}) =>
        LET r == ParseJson(ser.out)
            s == SerSource
            own == IF ser.ty = "Source" THEN <<>> ELSE <<S("detail")>>
        IN /\ r.ok /\ r.v.k = "obj"
           /\ HasKey(r.v, S("source"))
           /\ Same(Get(r.v, S("source")),
                   StrV(IF s.variant = "Body" THEN S("body") ELSE S("header")))
           /\ \A i \in 1..Len(r.v.c) : r.v.c[i].val.k \in {"str", "null"}
           /\ Keys(r.v) = own \o <<S("source"),
                                   IF s.variant = "Body" THEN S("pointer") ELSE S("name")>>
           /\ s.variant = "Header" => Same(Get(r.v, S("name")), StrV(s.name))
           /\ ser.ty = "ValidationError" =>
                 Same(Get(r.v, S("detail")), StrV(ser.v.detail))

\* C8 witness: Source::Header{name: "Authorization"} serialized to
\* {"source":"header","name":"Authorization"}.
C8_Witness ==
    /\ ser.ty = "Source"
    /\ ser.v = Header(S("Authorization"))
    /\ ser.out = <<LBrace, StrTok(S("source")), Colon, StrTok(S("header")), Comma,
                   StrTok(S("name")), Colon, StrTok(S("Authorization")), RBrace>>

\* C9: errors serializes as an array as long as the input sequence whose
\* i-th element is the serialization of the i-th ValidationError, for every
\* length, zero included (the key is present with an empty array).
C9_ErrorsInOrder ==
    (ser.ty = "ValidationErrors") =>
        LET r == ParseJson(ser.out)
            errors == ser.v.errors
        IN /\ r.ok /\ r.v.k = "obj"
           /\ Keys(r.v) = <<S("errors")>>
           /\ LET a == Get(r.v, S("errors"))
              IN /\ a.k = "arr"
                 /\ Len(a.c) = Len(errors)
                 /\ \A i \in 1..Len(errors) :
                       a.c[i].val =
                         ParseJson(ObjectToks(ValidationErrorFields(errors[i]))).v

\* C9 witness: a sequence of MaxErrors errors, the first and the last
\* different, has been serialized.
C9_Witness ==
    /\ ser.ty = "ValidationErrors"
    /\ Len(ser.v.errors) = MaxErrors
    /\ ser.v.errors[1] # ser.v.errors[MaxErrors]
    /\ Len(Get(ParseJson(ser.out).v, S("errors")).c) = MaxErrors

\* into_response run alone on p, start to end.
Alone(p) ==
    LET b == WriteFields(<<LBrace>>, TRUE, EnvelopeFields(p))
        m == ExtensionMember(p.extensions)
        w == WriteFields(b, FALSE, m.fields)
    IN IF m.ok THEN MatchResult(Constants, "Ok", w \o <<RBrace>>)
       ELSE MatchResult(Constants, "Err", w)

\* C10: under every interleaving each invocation returns the response it
\* returns when run alone, and the three constants keep their values,
\* whichever paths the invocations take.
C10_NoInterference ==
    /\ consts = Constants
    /\ \A t \in Tasks : Done(t) => resp[t] = Alone(input[t])

\* C10 witness: one invocation has returned the fallback while another, on a
\* problem with a successful extension, is in the middle of serializing.
C10_Witness ==
    \E t, u \in Tasks :
        /\ t # u
        /\ Done(t) /\ result[t] = "Err" /\ resp[t] = Alone(input[t])
        /\ pc[u] = "end" /\ input[u].extensions.some
        /\ Len(buf[BufOf(u)]) > 0

====
